---- MODULE Spec2Model ----
(***************************************************************************)
(* A model of json-api-mock (src/server.js): the MockAPIServer class, its  *)
(* in-memory document `data`, the backing file, and the request handling   *)
(* of handleRequest with the four verb handlers of setupRoutes.            *)
(*                                                                         *)
(* Two value spaces are kept apart, so that JSON.parse and JSON.stringify  *)
(* are conversions between them and not the identity:                      *)
(*   - JavaScript values held in memory (tag t): numbers (including the    *)
(*     non-finite Infinity and NaN), strings, null, undefined;             *)
(*   - JSON text as it stands in a request body, a response body or the    *)
(*     backing file (tag lit): number literals (including a literal too    *)
(*     large for a double, such as 1e999), string literals, null.          *)
(***************************************************************************)
EXTENDS Integers, Sequences, FiniteSets, TLC

VARIABLES
    data,      \* this.data: collection name -> sequence of records
    file,      \* the backing file this.dataFile: [exists, json, doc]
    clock,     \* the latest value Date.now() has returned
    req,       \* the request handled last: [method, url, body]
    resp,      \* the response sent to it: [status, body]
    events,    \* what the last handler did, in order
    nreq,      \* number of requests handled since the process tree started
    mutated,   \* some create/update/delete has succeeded since the last load
    writeFailed, \* some write of the backing file has failed since the last load
    repeatOf,  \* status of the previous response if the previous request was
               \* this same request, else 0
    conns,     \* the requests in flight: per connection, the request as the
               \* client sends it, the chunks still to come, the `body`
               \* accumulated by its 'data' listener, the responses sent
    served,    \* the requests answered so far, in the order of their answers
    boot       \* the backing file as the constructor found it

vars == <<data, file, clock, req, resp, events, nreq, mutated, writeFailed, repeatOf,
          conns, served, boot>>

\* The variables of the requests in flight.
inFlightVars == <<conns, served, boot>>

(***************************************************************************)
(* Bounds of the model.                                                    *)
(***************************************************************************)
\* Requests handled in one behaviour.
MaxRequests == 2

\* The first value Date.now() can return (larger than every seeded id).
StartTime == 100

(***************************************************************************)
(* JavaScript values.                                                      *)
(***************************************************************************)
Num(k) == [t |-> "number", n |-> k, s |-> ""]
\* A number with two decimals, k hundredths (999.99 is Dec(99999)).
Dec(k) == [t |-> "number", n |-> k, s |-> "e-2"]
Str(x) == [t |-> "string", n |-> 0, s |-> x]
Infinity == [t |-> "number", n |-> 0, s |-> "Infinity"]
NaN == [t |-> "number", n |-> 0, s |-> "NaN"]
Null == [t |-> "null", n |-> 0, s |-> ""]
Undefined == [t |-> "undefined", n |-> 0, s |-> ""]

\* The object {}.
EmptyObject == [f \in {} |-> Null]

(***************************************************************************)
(* JSON text.                                                              *)
(***************************************************************************)
LitNum(k) == [lit |-> "number", n |-> k, s |-> ""]
LitDec(k) == [lit |-> "number", n |-> k, s |-> "e-2"]
\* The literal 1e999: a valid JSON number beyond the range of a double.
LitHuge == [lit |-> "number", n |-> 1, s |-> "e999"]
LitStr(x) == [lit |-> "string", n |-> 0, s |-> x]
LitNull == [lit |-> "null", n |-> 0, s |-> ""]

(***************************************************************************)
(* JSON.parse and JSON.stringify (src/server.js:25, 117, 131, 172).        *)
(***************************************************************************)
\* JSON.parse of one literal: a number literal beyond the range of a
\* double becomes Infinity.
JSONparseValue(l) ==
    IF l.lit = "number"
    THEN IF l.s = "e999" THEN Infinity ELSE [t |-> "number", n |-> l.n, s |-> l.s]
    ELSE IF l.lit = "string" THEN Str(l.s)
    ELSE Null

\* JSON.stringify of one value: a non-finite number is written as null.
JSONstringifyValue(v) ==
    IF v.t = "number"
    THEN IF v.s \in {"Infinity", "NaN"} THEN LitNull
         ELSE [lit |-> "number", n |-> v.n, s |-> v.s]
    ELSE IF v.t = "string" THEN LitStr(v.s)
    ELSE LitNull

\* An object: its own properties, one by one (properties whose value is
\* undefined are left out by JSON.stringify).
JSONparseObject(o) == [f \in DOMAIN o |-> JSONparseValue(o[f])]

JSONstringifyObject(o) ==
    [f \in {g \in DOMAIN o : o[g].t # "undefined"} |-> JSONstringifyValue(o[f])]

\* An array of objects.
JSONparseArray(a) == [i \in 1..Len(a) |-> JSONparseObject(a[i])]

JSONstringifyArray(a) == [i \in 1..Len(a) |-> JSONstringifyObject(a[i])]

\* The whole document: an object whose values are arrays of objects.
JSONparseDocument(d) == [c \in DOMAIN d |-> JSONparseArray(d[c])]

JSONstringifyDocument(d) == [c \in DOMAIN d |-> JSONstringifyArray(d[c])]

(***************************************************************************)
(* The backing file.                                                       *)
(***************************************************************************)
NoDocument == [c \in {} |-> <<>>]

\* No file at the path.
FileAbsent == [exists |-> FALSE, json |-> FALSE, doc |-> NoDocument]

\* A file whose content is not JSON.
FileCorrupt == [exists |-> TRUE, json |-> FALSE, doc |-> NoDocument]

\* A file holding the JSON text d.
FileWith(d) == [exists |-> TRUE, json |-> TRUE, doc |-> d]

\* A data file written by hand, as README.md describes: one collection,
\* two records sharing an id, one whose id is a string, one with none.
CustomFile ==
    FileWith([users |-> << [id |-> LitNum(1), name |-> LitStr("Ann")],
                           [id |-> LitNum(1), name |-> LitStr("Ben")],
                           [id |-> LitStr("2"), name |-> LitStr("Cy")],
                           [name |-> LitStr("Di")] >>])

\* The default mock data.
DefaultData ==
    [users |-> << [id |-> Num(1), name |-> Str("Alice Johnson"),
                   email |-> Str("alice@example.com"), role |-> Str("admin")],
                  [id |-> Num(2), name |-> Str("Bob Smith"),
                   email |-> Str("bob@example.com"), role |-> Str("user")],
                  [id |-> Num(3), name |-> Str("Charlie Brown"),
                   email |-> Str("charlie@example.com"), role |-> Str("user")] >>,
     posts |-> << [id |-> Num(1), userId |-> Num(1), title |-> Str("First Post"),
                   content |-> Str("Hello World!"), likes |-> Num(42)],
                  [id |-> Num(2), userId |-> Num(2), title |-> Str("Second Post"),
                   content |-> Str("Mock APIs are great!"), likes |-> Num(15)] >>,
     products |-> << [id |-> Num(1), name |-> Str("Laptop"),
                      price |-> Dec(99999), stock |-> Num(50)],
                     [id |-> Num(2), name |-> Str("Mouse"),
                      price |-> Dec(2999), stock |-> Num(200)],
                     [id |-> Num(3), name |-> Str("Keyboard"),
                      price |-> Dec(7999), stock |-> Num(100)] >>]

\* loadData: the parsed file if it exists and parses, else the defaults.
loadData(f) ==
    IF f.exists /\ f.json THEN JSONparseDocument(f.doc) ELSE DefaultData

\* The outcomes of fs.writeFileSync: the file is overwritten, or the write
\* is refused (no permission, read-only or full disk) and throws, leaving
\* the file as it was.
WriteOutcomes == {"ok", "refused"}

\* A saveData that tries again until the file is written.
saveDataRetried(d, f, outcome) == FileWith(JSONstringifyDocument(d))

\* saveData: the whole document, serialised, overwrites the file; an error
\* is caught and logged.
saveData(d, f, outcome) ==
    IF outcome = "ok" THEN FileWith(JSONstringifyDocument(d)) ELSE f

(***************************************************************************)
(* Requests.  A url is the list of its path segments, url.split('/')       *)
(* without the empty string before the first slash; a segment is its       *)
(* leading decimal digits followed by the rest of its text, so "2x" is     *)
(* Seg(<<2>>, "x") and "users" is Seg(<<>>, "users").                      *)
(***************************************************************************)
Seg(ds, r) == [digits |-> ds, rest |-> r]

RootUrl == << Seg(<<>>, "") >>

\* url.split('/')[1] for a url whose first segment does not start with a digit.
CollectionOf(url) == url[1].rest

RECURSIVE DecimalValue(_)
DecimalValue(ds) ==
    IF ds = <<>> THEN 0
    ELSE 10 * DecimalValue(SubSeq(ds, 1, Len(ds) - 1)) + ds[Len(ds)]

\* parseInt(parts[2]): the value of the leading digits; NaN when the segment
\* is missing (undefined) or does not start with a digit.
parseInt(url) ==
    IF Len(url) < 2 \/ url[2].digits = <<>> THEN NaN
    ELSE Num(DecimalValue(url[2].digits))

\* a === b on primitive values: same type and same value, NaN equal to nothing.
StrictEquals(a, b) == a.t = b.t /\ a # NaN /\ b # NaN /\ a = b

\* item.id: undefined when the record has no such property.
IdOf(item) == IF "id" \in DOMAIN item THEN item.id ELSE Undefined

\* A findIndex comparing with == : a string id equals the number it spells.
findIndexLoose(items, id) ==
    LET hits == {i \in 1..Len(items) :
                    \/ StrictEquals(IdOf(items[i]), id)
                    \/ /\ IdOf(items[i]).t = "string"
                       /\ id # NaN
                       /\ IdOf(items[i]).s = ToString(id.n)}
    IN  IF hits = {} THEN -1
        ELSE (CHOOSE i \in hits : \A j \in hits : i <= j) - 1

\* findIndex(item => item.id === id): the 0-based index of the first match, or -1.
findIndex(items, id) ==
    LET hits == {i \in 1..Len(items) : StrictEquals(IdOf(items[i]), id)}
    IN  IF hits = {} THEN -1
        ELSE (CHOOSE i \in hits : \A j \in hits : i <= j) - 1

\* { ...a, ...b }: the properties of a, then those of b over them.
Spread(a, b) ==
    [f \in DOMAIN a \cup DOMAIN b |-> IF f \in DOMAIN b THEN b[f] ELSE a[f]]

\* An item whose generated id wins over the body's: { ...body, id: Date.now() }.
newItemGeneratedWins(t, body) == Spread(body, [id |-> Num(t)])

\* The item POST builds: { id: Date.now(), ...body }.
newItem(t, body) == Spread([id |-> Num(t)], body)

\* A merge the other way round: the stored fields win over the body's.
mergedItemStoredWins(item, body) == Spread(body, item)

\* The item PUT stores: { ...existing, ...body }.
mergedItem(item, body) == Spread(item, body)

\* A push that puts the item first.
pushFirst(items, item) == << item >> \o items

\* items.push(item)
push(items, item) == Append(items, item)

\* A splice without its count: everything from index on is removed.
spliceToEnd(items, index) == SubSeq(items, 1, index)

\* items.splice(index, 1) with a 0-based index.
splice(items, index) ==
    SubSeq(items, 1, index) \o SubSeq(items, index + 2, Len(items))

\* items[index] = item with a 0-based index.
replaceAt(items, index, item) == [items EXCEPT ![index + 1] = item]

\* Property names every plain object inherits from Object.prototype, each
\* naming a function.
ObjectPrototypeKeys == {"constructor", "toString", "valueOf", "hasOwnProperty"}

\* this.data[collection]: the array stored under the key, an inherited
\* function, or undefined.
lookup(d, c) ==
    IF c \in DOMAIN d THEN [k |-> "array", v |-> d[c]]
    ELSE IF c \in ObjectPrototypeKeys THEN [k |-> "function", v |-> <<>>]
    ELSE [k |-> "undefined", v |-> <<>>]

\* if (this.data[collection]): arrays (empty ones too) and functions are truthy.
Truthy(x) == x.k # "undefined"

(***************************************************************************)
(* Responses: sendJSON(res, status, data).                                 *)
(***************************************************************************)
NoBody == [k |-> "none", v |-> <<>>]

\* JSON.stringify(data, null, 2) of what the handlers pass: undefined for a
\* function, so that res.end() sends no body.
JSONstringify(x) ==
    IF x.k = "array" THEN [k |-> "array", v |-> JSONstringifyArray(x.v)]
    ELSE IF x.k = "object" THEN [k |-> "object", v |-> JSONstringifyObject(x.v)]
    ELSE IF x.k = "info" THEN x
    ELSE NoBody

sendJSON(status, x) ==
    [status |-> status, body |-> IF x.k # "null" THEN JSONstringify(x) ELSE NoBody]

JSNull == [k |-> "null", v |-> <<>>]
Object(o) == [k |-> "object", v |-> o]
ErrorObject(msg) == Object([error |-> Str(msg)])

\* An info page that lists the collections of the default data.
InfoPageOfDefaults(d) == [k |-> "info", v |-> DOMAIN DefaultData]

\* The info page of the root route: Object.keys(this.data).
InfoPage(d) == [k |-> "info", v |-> DOMAIN d]

(***************************************************************************)
(* The verb handlers of setupRoutes.  Each gives the document, the file,   *)
(* the response and the events after it has run; threw marks a TypeError   *)
(* raised inside the handler (calling push or findIndex on a value that    *)
(* has no such method), which handleRequest catches.                       *)
(***************************************************************************)
Event(name) == [e |-> name, outcome |-> ""]
WriteEvent(outcome) == [e |-> "write", outcome |-> outcome]

Answer(d, f, r) ==
    [data |-> d, file |-> f, resp |-> r, events |-> << Event("respond") >>,
     threw |-> FALSE]

\* A mutation of the document and the response, saveData left out.
MutationUnsaved(d, f, outcome, r) ==
    [data |-> d, file |-> f, resp |-> r,
     events |-> << Event("mutate"), Event("respond") >>,
     threw |-> FALSE]

\* A mutation whose failed write is reported to the client with a 500.
MutationSurfaced(d, f, outcome, r) ==
    [data |-> d, file |-> saveData(d, f, outcome),
     resp |-> IF outcome = "ok" THEN r
              ELSE [status |-> 500, body |-> NoBody],
     events |-> << Event("mutate"), WriteEvent(outcome), Event("respond") >>,
     threw |-> FALSE]

\* A mutation of the document, then saveData, then the response.
Mutation(d, f, outcome, r) ==
    [data |-> d, file |-> saveData(d, f, outcome), resp |-> r,
     events |-> << Event("mutate"), WriteEvent(outcome), Event("respond") >>,
     threw |-> FALSE]

Thrown(d, f) ==
    [data |-> d, file |-> f, resp |-> [status |-> 0, body |-> NoBody],
     events |-> <<>>, threw |-> TRUE]

CollectionNotFound == sendJSON(404, ErrorObject("Collection not found"))
ItemNotFound == sendJSON(404, ErrorObject("Item not found"))
InvalidJSONResponse == sendJSON(400, ErrorObject("Invalid JSON"))

\* A GET that narrows to the records with the id of the path, when the
\* path has an id segment.
getHandlerById(d, f, url) ==
    LET coll == lookup(d, CollectionOf(url))
    IN  IF Truthy(coll)
        THEN IF Len(url) < 2 \/ coll.k # "array" THEN Answer(d, f, sendJSON(200, coll))
             ELSE Answer(d, f, sendJSON(200,
                     [k |-> "array",
                      v |-> SelectSeq(coll.v,
                               LAMBDA item : StrictEquals(IdOf(item), parseInt(url)))]))
        ELSE Answer(d, f, CollectionNotFound)

\* A GET that saves the document each time it has read a collection.
getHandlerSaving(d, f, url) ==
    LET coll == lookup(d, CollectionOf(url))
    IN  IF Truthy(coll)
        THEN [Answer(d, f, sendJSON(200, coll))
                EXCEPT !.file = saveData(d, f, "ok"),
                       !.events = << WriteEvent("ok"), Event("respond") >>]
        ELSE Answer(d, f, CollectionNotFound)

\* routes.get('GET')
getHandler(d, f, url) ==
    LET coll == lookup(d, CollectionOf(url))
    IN  IF Truthy(coll) THEN Answer(d, f, sendJSON(200, coll))
        ELSE Answer(d, f, CollectionNotFound)

\* routes.get('POST'); t is what Date.now() returns.
postHandler(d, f, url, body, t, outcome) ==
    LET c == CollectionOf(url)
        coll == lookup(d, c)
        item == newItem(t, body)
    IN  IF Truthy(coll)
        THEN IF coll.k = "array"
             THEN Mutation([d EXCEPT ![c] = push(@, item)], f, outcome,
                           sendJSON(201, Object(item)))
             ELSE Thrown(d, f)
        ELSE Answer(d, f, CollectionNotFound)

\* routes.get('PUT')
putHandler(d, f, url, body, outcome) ==
    LET c == CollectionOf(url)
        id == parseInt(url)
        coll == lookup(d, c)
    IN  IF Truthy(coll)
        THEN IF coll.k = "array"
             THEN LET index == findIndex(d[c], id)
                  IN  IF index # -1
                      THEN LET item == mergedItem(d[c][index + 1], body)
                           IN  Mutation([d EXCEPT ![c] = replaceAt(@, index, item)],
                                        f, outcome, sendJSON(200, Object(item)))
                      ELSE Answer(d, f, ItemNotFound)
             ELSE Thrown(d, f)
        ELSE Answer(d, f, CollectionNotFound)

\* A DELETE that answers 204 when there is nothing to delete.
deleteHandlerIdempotent(d, f, url, outcome) ==
    LET c == CollectionOf(url)
        id == parseInt(url)
        coll == lookup(d, c)
    IN  IF Truthy(coll)
        THEN IF coll.k = "array"
             THEN LET index == findIndex(d[c], id)
                  IN  IF index # -1
                      THEN Mutation([d EXCEPT ![c] = splice(@, index)], f, outcome,
                                    sendJSON(204, JSNull))
                      ELSE Answer(d, f, sendJSON(204, JSNull))
             ELSE Thrown(d, f)
        ELSE Answer(d, f, CollectionNotFound)

\* routes.get('DELETE')
deleteHandler(d, f, url, outcome) ==
    LET c == CollectionOf(url)
        id == parseInt(url)
        coll == lookup(d, c)
    IN  IF Truthy(coll)
        THEN IF coll.k = "array"
             THEN LET index == findIndex(d[c], id)
                  IN  IF index # -1
                      THEN Mutation([d EXCEPT ![c] = splice(@, index)], f, outcome,
                                    sendJSON(204, JSNull))
                      ELSE Answer(d, f, ItemNotFound)
             ELSE Thrown(d, f)
        ELSE Answer(d, f, CollectionNotFound)

\* A dispatch that sends the methods without a handler to the PUT handler.
routeOfPatchAsPut(method) ==
    IF method \in {"GET", "POST", "PUT", "DELETE"} THEN method ELSE "PUT"

\* this.routes.get(method) || this.routes.get('GET')
routeOf(method) ==
    IF method \in {"GET", "POST", "PUT", "DELETE"} THEN method ELSE "GET"

\* body ? JSON.parse(body) : {}
EmptyText == [f \in {} |-> LitNull]
NoText == [kind |-> "empty", obj |-> EmptyText]
NotJSON == [kind |-> "invalid", obj |-> EmptyText]
JSONText(o) == [kind |-> "json", obj |-> o]

\* A parse that takes unparsable text for {}.
parseBodyLenient(body) ==
    IF body.kind = "json" THEN [ok |-> TRUE, value |-> JSONparseObject(body.obj)]
    ELSE [ok |-> TRUE, value |-> EmptyObject]

parseBody(body) ==
    IF body.kind = "empty" THEN [ok |-> TRUE, value |-> EmptyObject]
    ELSE IF body.kind = "invalid" THEN [ok |-> FALSE, value |-> EmptyObject]
    ELSE [ok |-> TRUE, value |-> JSONparseObject(body.obj)]

\* The catch of the 'end' callback: whatever was thrown, 400 Invalid JSON.
Caught(out) ==
    IF out.threw
    THEN [out EXCEPT !.resp = InvalidJSONResponse,
                     !.events = << Event("respond") >>, !.threw = FALSE]
    ELSE out

(***************************************************************************)
(* The requests the model sends.                                           *)
(***************************************************************************)
Methods == {"GET", "POST", "PUT", "DELETE", "PATCH", "OPTIONS"}

Urls ==
    { RootUrl,
      << Seg(<<>>, "users") >>,
      << Seg(<<>>, "users"), Seg(<<1>>, "") >>,
      << Seg(<<>>, "users"), Seg(<<2>>, "x") >>,
      << Seg(<<>>, "users"), Seg(<<>>, "x") >>,
      << Seg(<<>>, "ghost"), Seg(<<1>>, "") >>,
      << Seg(<<>>, "constructor") >> }

\* {"name":"X"}
NameBody == JSONText([name |-> LitStr("X")])
\* {"id":1,"score":1e999}
IdBody == JSONText([id |-> LitNum(1), score |-> LitHuge])

Bodies == {NoText, NotJSON, NameBody, IdBody}

\* POST and PUT come with a body; a JSON body is sent with POST, PUT and
\* PATCH only.
Requests ==
    { r \in [method : Methods, url : Urls, body : Bodies] :
        /\ r.body.kind = "json" => r.method \in {"POST", "PUT", "PATCH"}
        /\ r.body.kind = "empty" => r.method \notin {"POST", "PUT"}
        /\ r.method = "PATCH" => r.body # IdBody }

NoRequest == [method |-> "", url |-> <<>>, body |-> NoText]
NoResponse == [status |-> 0, body |-> NoBody]

(***************************************************************************)
(* Connections.  A request in flight has its own res and its own `body`    *)
(* (a local of handleRequest, server.js:165); its body comes in chunks.    *)
(***************************************************************************)
Connections == 1..MaxRequests

Idle ==
    [phase |-> "idle", request |-> NoRequest, pending |-> <<>>, body |-> <<>>,
     responses |-> <<>>, ended |-> FALSE]

NoConnections == [c \in Connections |-> Idle]

\* Part i of the text of body b.
Chunk(b, i) == [of |-> b, part |-> i]

\* The chunks a client sends the body in: none for no body, two for a JSON
\* text, one for the unparsable text.
chunksOf(b) ==
    IF b.kind = "empty" THEN <<>>
    ELSE IF b.kind = "invalid" THEN << Chunk(b, 1) >>
    ELSE << Chunk(b, 1), Chunk(b, 2) >>

\* body += chunk.toString() over the chunks received: the empty string,
\* the text of a body when the chunks are its parts in order, and a text
\* that JSON.parse rejects otherwise.
bodyText(chunks) ==
    IF chunks = <<>> THEN NoText
    ELSE IF \E b \in Bodies : chunks = chunksOf(b)
         THEN CHOOSE b \in Bodies : chunks = chunksOf(b)
         ELSE NotJSON

(***************************************************************************)
(* The state machine.                                                      *)
(***************************************************************************)
\* The constructor: this.data = this.loadData(), with the data file absent,
\* unparsable, or written by hand.
Init ==
    /\ file \in {FileAbsent, FileCorrupt, CustomFile}
    /\ data = loadData(file)
    /\ clock = StartTime
    /\ req = NoRequest
    /\ resp = NoResponse
    /\ events = <<>>
    /\ nreq = 0
    /\ mutated = FALSE
    /\ writeFailed = FALSE
    /\ repeatOf = 0
    /\ conns = NoConnections
    /\ served = <<>>
    /\ boot = file

HasEvent(evs, name) == \E i \in 1..Len(evs) : evs[i].e = name
FailedWrite(evs) ==
    \E i \in 1..Len(evs) : evs[i].e = "write" /\ evs[i].outcome # "ok"

\* The request r has been handled with the result out: the effect on the
\* document, the file and the record of the last request.
Stored(r, result) ==
    \E out \in {result} :
        /\ nreq' = nreq + 1
        /\ req' = r
        /\ data' = out.data
        /\ file' = out.file
        /\ resp' = out.resp
        /\ events' = out.events
        /\ mutated' = (mutated \/ HasEvent(out.events, "mutate"))
        /\ writeFailed' = (writeFailed \/ FailedWrite(out.events))
        /\ repeatOf' = IF r = req THEN resp.status ELSE 0

\* The same with one request at a time, its body arriving whole.
Handled(r, result) == Stored(r, result) /\ UNCHANGED inFlightVars

\* handleRequest, method OPTIONS: answered at once, the body is not read.
Options ==
    /\ nreq < MaxRequests
    /\ \E r \in Requests :
        /\ r.method = "OPTIONS"
        /\ Handled(r, Answer(data, file, sendJSON(200, JSNull)))
        /\ UNCHANGED clock

\* handleRequest, url '/': the info page, whatever the method.
Root ==
    /\ nreq < MaxRequests
    /\ \E r \in Requests :
        /\ r.method # "OPTIONS"
        /\ r.url = RootUrl
        /\ Handled(r, Answer(data, file, sendJSON(200, InfoPage(data))))
        /\ UNCHANGED clock

\* The request reaches the 'end' callback, which dispatches it to route.
Dispatched(r, route) ==
    /\ r.method # "OPTIONS"
    /\ r.url # RootUrl
    /\ parseBody(r.body).ok
    /\ routeOf(r.method) = route

\* The 'end' callback with a body that JSON.parse rejects.
InvalidJSON ==
    /\ nreq < MaxRequests
    /\ \E r \in Requests :
        /\ r.method # "OPTIONS"
        /\ r.url # RootUrl
        /\ ~parseBody(r.body).ok
        /\ Handled(r, Answer(data, file, InvalidJSONResponse))
        /\ UNCHANGED clock

\* The 'end' callback dispatching to the GET handler (GET, and every method
\* that has no handler of its own).
Get ==
    /\ nreq < MaxRequests
    /\ \E r \in Requests :
        /\ Dispatched(r, "GET")
        /\ Handled(r, Caught(getHandler(data, file, r.url)))
        /\ UNCHANGED clock

\* The 'end' callback dispatching to the POST handler.  Date.now() does not
\* go back, and may return the same millisecond twice.
Post ==
    /\ nreq < MaxRequests
    /\ \E r \in Requests :
        /\ Dispatched(r, "POST")
        /\ \E t \in {clock, clock + 1}, outcome \in WriteOutcomes :
            /\ Handled(r, Caught(postHandler(data, file, r.url,
                                             parseBody(r.body).value, t, outcome)))
            /\ clock' = IF Truthy(lookup(data, CollectionOf(r.url))) THEN t ELSE clock

\* The 'end' callback dispatching to the PUT handler.
Put ==
    /\ nreq < MaxRequests
    /\ \E r \in Requests :
        /\ Dispatched(r, "PUT")
        /\ \E outcome \in WriteOutcomes :
            /\ Handled(r, Caught(putHandler(data, file, r.url,
                                            parseBody(r.body).value, outcome)))
            /\ UNCHANGED clock

\* The 'end' callback dispatching to the DELETE handler.
Delete ==
    /\ nreq < MaxRequests
    /\ \E r \in Requests :
        /\ Dispatched(r, "DELETE")
        /\ \E outcome \in WriteOutcomes :
            /\ Handled(r, Caught(deleteHandler(data, file, r.url, outcome)))
            /\ UNCHANGED clock

\* The process is stopped and started again: the constructor loads the file.
Restart ==
    /\ data' = loadData(file)
    /\ req' = NoRequest
    /\ resp' = NoResponse
    /\ events' = <<>>
    /\ mutated' = FALSE
    /\ writeFailed' = FALSE
    /\ repeatOf' = 0
    /\ boot' = file
    /\ UNCHANGED <<file, clock, nreq, conns, served>>

Next ==
    \/ Options
    \/ Root
    \/ InvalidJSON
    \/ Get
    \/ Post
    \/ Put
    \/ Delete
    \/ Restart

Spec == Init /\ [][Next]_vars

(***************************************************************************)
(* The same server with several requests in flight.  Node runs one         *)
(* callback at a time to its end: the call of handleRequest for a new      *)
(* request, the 'data' listener for a chunk, the 'end' listener.  Nothing  *)
(* makes a client send the rest of a body, so a request may stay in flight *)
(* for ever.                                                               *)
(***************************************************************************)
\* The requests sent in flight.
InFlightRequests ==
    { r \in Requests :
        \/ r.method \in {"POST", "PUT"} /\ r.body = NameBody
               /\ r.url = IF r.method = "POST"
                          THEN << Seg(<<>>, "users") >>
                          ELSE << Seg(<<>>, "users"), Seg(<<1>>, "") >>
        \/ r.method = "POST" /\ r.body = NameBody /\ r.url = RootUrl
        \/ r.method = "POST" /\ r.body = NotJSON /\ r.url = << Seg(<<>>, "users") >>
        \/ r.method = "DELETE" /\ r.body = NoText
               /\ r.url = << Seg(<<>>, "users"), Seg(<<1>>, "") >>
        \/ r.method \in {"GET", "OPTIONS"} /\ r.body = NoText
               /\ r.url = << Seg(<<>>, "users") >> }

\* A handleRequest that answers GET too before the body is read.
answeredAtOnceGetToo(r) ==
    r.method \in {"OPTIONS", "GET"} \/ r.url = RootUrl

\* handleRequest returns before it registers the listeners: method OPTIONS,
\* or url '/'.
answeredAtOnce(r) == r.method = "OPTIONS" \/ r.url = RootUrl

\* The response of handleRequest to such a request.
atOnce(d, f, r) ==
    IF r.method = "OPTIONS" THEN Answer(d, f, sendJSON(200, JSNull))
    ELSE Answer(d, f, sendJSON(200, InfoPage(d)))

\* The 'end' listener of request r, text being what `body` holds.
endCallback(d, f, r, text, t, outcome) ==
    LET parsed == parseBody(text)
        route == routeOf(r.method)
    IN  IF ~parsed.ok THEN Answer(d, f, InvalidJSONResponse)
        ELSE IF route = "GET" THEN Caught(getHandler(d, f, r.url))
        ELSE IF route = "POST"
             THEN Caught(postHandler(d, f, r.url, parsed.value, t, outcome))
        ELSE IF route = "PUT"
             THEN Caught(putHandler(d, f, r.url, parsed.value, outcome))
        ELSE Caught(deleteHandler(d, f, r.url, outcome))

\* The 'end' listener reads the clock: a POST, its body parsed, to a name
\* that this.data gives something for.
readsClock(d, r, text) ==
    /\ parseBody(text).ok
    /\ routeOf(r.method) = "POST"
    /\ Truthy(lookup(d, CollectionOf(r.url)))

\* A 'data' listener that appends to one buffer shared by the requests
\* being read.
receivedShared(cs, c) ==
    [b \in DOMAIN cs |->
        IF b = c
        THEN [cs[b] EXCEPT !.body = Append(@, Head(cs[c].pending)),
                           !.pending = Tail(@)]
        ELSE IF cs[b].phase = "reading"
        THEN [cs[b] EXCEPT !.body = Append(@, Head(cs[c].pending))]
        ELSE cs[b]]

\* The 'data' listener of connection c: body += chunk.toString().
received(cs, c) ==
    [cs EXCEPT ![c].body = Append(@, Head(cs[c].pending)),
               ![c].pending = Tail(@)]

\* An entry of served: the connection, the clock after the answer, whether
\* no write failed.
Served(c, t, evs) == [c |-> c, t |-> t, saved |-> ~FailedWrite(evs)]

InitInFlight ==
    /\ file \in {FileAbsent, CustomFile}
    /\ data = loadData(file)
    /\ clock = StartTime
    /\ req = NoRequest
    /\ resp = NoResponse
    /\ events = <<>>
    /\ nreq = 0
    /\ mutated = FALSE
    /\ writeFailed = FALSE
    /\ repeatOf = 0
    /\ conns = NoConnections
    /\ served = <<>>
    /\ boot = file

\* The server calls handleRequest for a new request, on the next connection:
\* it answers at once, or registers the two listeners and returns.
handleRequest ==
    \E c \in Connections :
        /\ conns[c].phase = "idle"
        /\ \A b \in 1..(c - 1) : conns[b].phase # "idle"
        /\ \E r \in InFlightRequests :
            IF answeredAtOnce(r)
            THEN \E out \in {atOnce(data, file, r)} :
                    /\ Stored(r, out)
                    /\ conns' = [conns EXCEPT ![c] =
                                    [phase |-> "answered", request |-> r,
                                     pending |-> chunksOf(r.body), body |-> <<>>,
                                     responses |-> << out.resp >>, ended |-> FALSE]]
                    /\ served' = Append(served, Served(c, clock, out.events))
            ELSE /\ conns' = [conns EXCEPT ![c] =
                                [phase |-> "reading", request |-> r,
                                 pending |-> chunksOf(r.body), body |-> <<>>,
                                 responses |-> <<>>, ended |-> FALSE]]
                 /\ UNCHANGED <<data, file, req, resp, events, nreq, mutated,
                                writeFailed, repeatOf, served>>
        /\ UNCHANGED <<clock, boot>>

\* A chunk of the body of a request being read arrives.
onData ==
    \E c \in Connections :
        /\ conns[c].phase = "reading"
        /\ conns[c].pending # <<>>
        /\ conns' = received(conns, c)
        /\ UNCHANGED <<data, file, clock, req, resp, events, nreq, mutated,
                       writeFailed, repeatOf, served, boot>>

\* The body of a request being read has arrived whole: its 'end' listener
\* runs.
onEnd ==
    \E c \in Connections :
        /\ conns[c].phase = "reading"
        /\ conns[c].pending = <<>>
        /\ LET r == conns[c].request
               text == bodyText(conns[c].body)
           IN  \E t \in IF r.method = "POST" THEN {clock, clock + 1} ELSE {clock},
                  outcome \in IF r.method \in {"POST", "PUT", "DELETE"}
                              THEN WriteOutcomes ELSE {"ok"} :
                 \E out \in {endCallback(data, file, r, text, t, outcome)} :
                    /\ Stored(r, out)
                    /\ clock' = IF readsClock(data, r, text) THEN t ELSE clock
                    /\ conns' = [conns EXCEPT ![c].phase = "answered",
                                              ![c].ended = TRUE,
                                              ![c].responses = Append(@, out.resp)]
                    /\ served' = Append(served, Served(c, clock', out.events))
        /\ UNCHANGED boot

NextInFlight ==
    \/ handleRequest
    \/ onData
    \/ onEnd

SpecInFlight == InitInFlight /\ [][NextInFlight]_vars

(***************************************************************************)
(* Vocabulary of the properties.  A step that handles a request raises     *)
(* nreq; in its post-state req' is the request and resp' the response.     *)
(* A response "returns" a value when its body is JSON.stringify of it.     *)
(***************************************************************************)
RequestStep == nreq' = nreq + 1

\* The request carries a JSON object as its body.
ObjectBody(r) == r.body.kind = "json"

\* The request has no body or a JSON object as its body.
ValidBody(r) == r.body.kind \in {"empty", "json"}

\* The fields the body supplies (none for an empty body).
FieldsOf(r) == JSONparseObject(r.body.obj)

\* The request is method /C or method /C/<id>, C a key of the document d.
OnCollection(r, method, d) ==
    /\ r.method = method
    /\ r.url # RootUrl
    /\ CollectionOf(r.url) \in DOMAIN d

Last(seq) == seq[Len(seq)]

Returns(r, status, kind, text) ==
    /\ r.status = status
    /\ r.body.k = kind
    /\ r.body.v = text

ReturnsError(r, status, msg) ==
    Returns(r, status, "object", [error |-> LitStr(msg)])

\* Every collection other than c is as it was.
OthersUnchanged(c) ==
    /\ DOMAIN data' = DOMAIN data
    /\ \A o \in DOMAIN data \ {c} : data'[o] = data[o]

\* The last handler wrote the file and the write succeeded.
WriteSucceeded(evs) ==
    \E i \in 1..Len(evs) : evs[i] = WriteEvent("ok")

\* The file, loaded again, has the record item in collection c.
FileContains(f, c, item) ==
    /\ f.exists
    /\ f.json
    /\ c \in DOMAIN f.doc
    /\ \E i \in 1..Len(f.doc[c]) : JSONparseObject(f.doc[c][i]) = item

\* The record has the id of the path: a number equal to its id field.
HasId(item, id) == "id" \in DOMAIN item /\ id # NaN /\ item.id = id

\* The positions, in the collection of url in document d, of the records that
\* have the id of url.
Matching(d, url) ==
    LET items == d[CollectionOf(url)]
    IN  {i \in 1..Len(items) : HasId(items[i], parseInt(url))}

First(S) == CHOOSE i \in S : \A j \in S : i <= j

\* seq without its element at position i.
Without(seq, i) == [j \in 1..(Len(seq) - 1) |-> IF j < i THEN seq[j] ELSE seq[j + 1]]

(***************************************************************************)
(* C1.  POST /C with a JSON object body, C a collection of the document:   *)
(* 201 with the new record, which has every field of the body and an id    *)
(* (the time read by Date.now() when the body gives none); the record is   *)
(* appended at the end of C, the earlier records and the other collections *)
(* are as they were.                                                       *)
(***************************************************************************)
C1Created ==
    LET c == CollectionOf(req'.url)
        body == FieldsOf(req')
        item == Last(data'[c])
    IN  /\ Returns(resp', 201, "object", JSONstringifyObject(item))
        /\ DOMAIN item = DOMAIN body \cup {"id"}
        /\ \A g \in DOMAIN body : item[g] = body[g]
        /\ "id" \notin DOMAIN body => item.id = Num(clock')
        /\ data'[c] = Append(data[c], item)
        /\ Len(data'[c]) = Len(data[c]) + 1
        /\ OthersUnchanged(c)

\* C1 as claimed: moreover the backing file, loaded again, contains the
\* new record.
C1_Original ==
    [][ (RequestStep /\ OnCollection(req', "POST", data) /\ ObjectBody(req'))
          => /\ C1Created
             /\ FileContains(file', CollectionOf(req'.url),
                             Last(data'[CollectionOf(req'.url)])) ]_vars

\* C1 as amended: when the write succeeds, the backing file holds the whole
\* document as JSON.stringify writes it, the new record last in C; loaded
\* again it has that record, a non-finite number in it read back as null.
C1_AppendsRecord ==
    [][ (RequestStep /\ OnCollection(req', "POST", data) /\ ObjectBody(req'))
          => /\ C1Created
             /\ WriteSucceeded(events') =>
                  LET c == CollectionOf(req'.url)
                  IN  /\ file' = FileWith(JSONstringifyDocument(data'))
                      /\ Last(loadData(file')[c]) =
                            JSONparseObject(JSONstringifyObject(Last(data'[c]))) ]_vars

\* A POST of {"name":"X"} to an existing collection, after an earlier
\* request, answered 201 with the file written.
C1_Witness ==
    /\ nreq = 2
    /\ req.method = "POST"
    /\ req.body = NameBody
    /\ resp.status = 201
    /\ WriteSucceeded(events)
    /\ Last(data[CollectionOf(req.url)]).name = Str("X")
    /\ FileContains(file, CollectionOf(req.url), Last(data[CollectionOf(req.url)]))

(***************************************************************************)
(* C2.  DELETE /C/id, C a collection of the document with a record whose   *)
(* id is the parsed id: 204 with no body; the first such record is         *)
(* removed, the others keep their order and content, the other collections *)
(* are as they were; a GET /C that follows returns C without that record.  *)
(***************************************************************************)
\* C2: the step of such a DELETE, and the step of a GET /C after it.
C2_DeletesFirstMatch ==
    [][ /\ (RequestStep /\ OnCollection(req', "DELETE", data) /\ ValidBody(req')
              /\ Matching(data, req'.url) # {})
          => LET c == CollectionOf(req'.url)
                 i == First(Matching(data, req'.url))
             IN  /\ Returns(resp', 204, "none", <<>>)
                 /\ Len(data'[c]) = Len(data[c]) - 1
                 /\ data'[c] = Without(data[c], i)
                 /\ OthersUnchanged(c)
        /\ (RequestStep /\ req.method = "DELETE" /\ resp.status = 204
              /\ req'.method = "GET" /\ ValidBody(req')
              /\ req'.url = << req.url[1] >>)
          => Returns(resp', 200, "array",
                     JSONstringifyArray(data[CollectionOf(req.url)])) ]_vars

\* DELETE /users/1 on the hand-written file, whose first two records both
\* have id 1: answered 204, the second of them is now first.
C2_Witness ==
    /\ req.method = "DELETE"
    /\ resp.status = 204
    /\ data.users # <<>>
    /\ data.users[1].name = Str("Ben")
    /\ Len(data.users) = 3

(***************************************************************************)
(* C3.  PUT /C/id with a JSON object body, C a collection of the document  *)
(* with a record whose id is the parsed id: 200 with the first such record *)
(* merged with the body (the body's fields win, the others are kept, so    *)
(* the id too unless the body gives one); the merged record takes the      *)
(* place of the old one, and the length of C, its other records and the    *)
(* other collections are as they were.                                     *)
(***************************************************************************)
\* C3: the step of such a PUT.
C3_MergesInPlace ==
    [][ (RequestStep /\ OnCollection(req', "PUT", data) /\ ObjectBody(req')
              /\ Matching(data, req'.url) # {})
          => LET c == CollectionOf(req'.url)
                 i == First(Matching(data, req'.url))
                 body == FieldsOf(req')
                 old == data[c][i]
                 new == data'[c][i]
             IN  /\ Returns(resp', 200, "object", JSONstringifyObject(new))
                 /\ DOMAIN new = DOMAIN old \cup DOMAIN body
                 /\ \A g \in DOMAIN body : new[g] = body[g]
                 /\ \A g \in DOMAIN old \ DOMAIN body : new[g] = old[g]
                 /\ "id" \notin DOMAIN body => new.id = old.id
                 /\ Len(data'[c]) = Len(data[c])
                 /\ \A j \in 1..Len(data[c]) : j # i => data'[c][j] = data[c][j]
                 /\ OthersUnchanged(c) ]_vars

\* PUT /users/2x with {"id":1,"score":1e999} on the default data: Bob Smith,
\* still second, now has id 1 and a score, and keeps his name.
C3_Witness ==
    /\ req.method = "PUT"
    /\ req.body = IdBody
    /\ resp.status = 200
    /\ Len(data.users) = 3
    /\ DOMAIN data.users[2] = {"id", "name", "email", "role", "score"}
    /\ data.users[2].name = Str("Bob Smith")
    /\ data.users[2].id = Num(1)

C5_UnknownCollection ==
    (/\ req # NoRequest
     /\ req.method # "OPTIONS"
     /\ req.url # RootUrl
     /\ ValidBody(req)
     /\ CollectionOf(req.url) \notin DOMAIN data)
        => ReturnsError(resp, 404, "Collection not found")

(***************************************************************************)
(* C6.  PUT /C/id and DELETE /C/id, C a collection of the document with no *)
(* record whose id is the parsed id: 404 with {"error": "Item not found"}, *)
(* the document as it was and the file not written.                        *)
(***************************************************************************)
\* C6: the step of such a PUT or DELETE.
C6_ItemNotFound ==
    [][ (RequestStep /\ ValidBody(req')
              /\ (OnCollection(req', "PUT", data) \/ OnCollection(req', "DELETE", data))
              /\ Matching(data, req'.url) = {})
          => /\ ReturnsError(resp', 404, "Item not found")
             /\ data' = data
             /\ file' = file
             /\ ~HasEvent(events', "write") ]_vars

\* PUT /users/2x on the hand-written file, where the only id that spells 2
\* is the string "2": 404, after an earlier request.
C6_Witness ==
    /\ nreq = 2
    /\ req.method = "PUT"
    /\ req.url = << Seg(<<>>, "users"), Seg(<<2>>, "x") >>
    /\ \E i \in 1..Len(data.users) : IdOf(data.users[i]) = Str("2")
    /\ resp.status = 404
    /\ resp.body.v = [error |-> LitStr("Item not found")]

(***************************************************************************)
(* C7.  A request other than OPTIONS, to a path other than /, whose body   *)
(* is not empty and not JSON: 400 with {"error": "Invalid JSON"}, whatever *)
(* the method and the collection; no handler runs, the document is as it   *)
(* was and the file is not written.                                        *)
(***************************************************************************)
\* C7: the step of such a request.
C7_InvalidJSON ==
    [][ (RequestStep /\ req'.method # "OPTIONS" /\ req'.url # RootUrl
              /\ req'.body.kind = "invalid")
          => /\ ReturnsError(resp', 400, "Invalid JSON")
             /\ events' = << Event("respond") >>
             /\ data' = data
             /\ file' = file ]_vars

\* DELETE /users/1 with an unparsable body, record 1 being there: 400.
C7_Witness ==
    /\ OnCollection(req, "DELETE", data)
    /\ req.body = NotJSON
    /\ Matching(data, req.url) # {}
    /\ resp.status = 400
    /\ resp.body.v = [error |-> LitStr("Invalid JSON")]

(***************************************************************************)
(* C8.  DELETE /C/id answered 204 and sent again at once.                  *)
(***************************************************************************)
\* The step repeats, with nothing in between, a DELETE just answered 204.
DeleteRepeated ==
    /\ RequestStep
    /\ req.method = "DELETE"
    /\ resp.status = 204
    /\ req' = req

\* C8 as claimed: the second DELETE is answered 404.
C8_Original ==
    [][ DeleteRepeated => resp'.status = 404 ]_vars

\* C8 as amended: the second DELETE is answered 404 with "Item not found"
\* when no record with that id is left after the first, and the document
\* is as it was; when another record with the same id is left (ids need not
\* be unique) it is answered 204 again and that record is removed.
C8_SecondDelete ==
    [][ DeleteRepeated =>
          LET c == CollectionOf(req.url)
          IN  IF Matching(data, req.url) = {}
              THEN /\ ReturnsError(resp', 404, "Item not found")
                   /\ data' = data
              ELSE /\ Returns(resp', 204, "none", <<>>)
                   /\ data'[c] = Without(data[c], First(Matching(data, req.url))) ]_vars

\* DELETE /users/1 answered 204, sent again and answered 404.
C8_Witness ==
    /\ req.method = "DELETE"
    /\ repeatOf = 204
    /\ resp.status = 404
    /\ resp.body.v = [error |-> LitStr("Item not found")]

(***************************************************************************)
(* C9.  A create, update or delete that succeeds (201, 200, 204) changes   *)
(* the document, then makes one attempt to write the file, then responds;  *)
(* when the write succeeds the file holds the whole document as it is when *)
(* the response is sent.                                                   *)
(***************************************************************************)
\* The last request was a create, update or delete that succeeded.
MutationSucceeded ==
    \/ resp.status \in {201, 204}
    \/ resp.status = 200 /\ req.method = "PUT" /\ req.url # RootUrl

\* C9: after such a request the events are mutate, write, respond, and a
\* write that succeeded has left the whole document in the file.
C9_MutateWriteRespond ==
    MutationSucceeded =>
        \E outcome \in WriteOutcomes :
            /\ events = << Event("mutate"), WriteEvent(outcome), Event("respond") >>
            /\ outcome = "ok" => file = FileWith(JSONstringifyDocument(data))

\* An update after an earlier request that deleted a record: the file is
\* written and holds the document.
C9_Witness ==
    /\ nreq = 2
    /\ req.method = "PUT"
    /\ resp.status = 200
    /\ req.url # RootUrl
    /\ WriteSucceeded(events)
    /\ Len(data.users) = 2
    /\ file.exists
    /\ file.json
    /\ Len(file.doc.users) = 2

(***************************************************************************)
(* C10.  With no write failed and some create, update or delete done, the  *)
(* document loaded again from the file is the document in memory.          *)
(***************************************************************************)
\* C10 as claimed.
C10_Original ==
    (mutated /\ ~writeFailed) => loadData(file) = data

(***************************************************************************)
(* C11.  A create, update or delete whose write of the file fails: the     *)
(* response (201, 200, 204) and the document are those of the same request *)
(* with the write succeeding, and a GET that follows returns the changed   *)
(* collection.                                                             *)
(***************************************************************************)
\* The step handles a request whose write of the file failed.
WriteFailedStep == RequestStep /\ FailedWrite(events')

\* What the handler of r gives on document d when the write succeeds, the
\* clock reading t.
IfSaved(r, d, f, t) ==
    LET body == parseBody(r.body).value
    IN  IF r.method = "POST" THEN Caught(postHandler(d, f, r.url, body, t, "ok"))
        ELSE IF r.method = "PUT" THEN Caught(putHandler(d, f, r.url, body, "ok"))
        ELSE Caught(deleteHandler(d, f, r.url, "ok"))

SuccessStatus(method) ==
    IF method = "POST" THEN 201 ELSE IF method = "PUT" THEN 200 ELSE 204

\* C11: the step of a request whose write failed, and the step of a GET of
\* the same collection after it.
C11_FailureAbsorbed ==
    [][ /\ WriteFailedStep
          => /\ req'.method \in {"POST", "PUT", "DELETE"}
             /\ resp'.status = SuccessStatus(req'.method)
             /\ resp' = IfSaved(req', data, file, clock').resp
             /\ data' = IfSaved(req', data, file, clock').data
             /\ HasEvent(events', "mutate")
             /\ Last(events') = Event("respond")
        /\ (RequestStep /\ FailedWrite(events)
              /\ req'.method = "GET" /\ ValidBody(req')
              /\ req'.url = << req.url[1] >>)
          => Returns(resp', 200, "array",
                     JSONstringifyArray(data[CollectionOf(req.url)])) ]_vars

\* GET /users after a POST whose write failed with no file there: the four
\* users are returned and there is still no file.
C11_Witness ==
    /\ nreq = 2
    /\ writeFailed
    /\ req.method = "GET"
    /\ req.url = << Seg(<<>>, "users") >>
    /\ resp.status = 200
    /\ resp.body.k = "array"
    /\ Len(resp.body.v) = 4
    /\ Len(data.users) = 4
    /\ file = FileAbsent

(***************************************************************************)
(* C12.  A request to the root path /.                                     *)
(***************************************************************************)
\* The step handles a request to /.
RootStep == RequestStep /\ req'.url = RootUrl

\* The step runs no handler and changes neither the document nor the file.
NoDispatch ==
    /\ events' = << Event("respond") >>
    /\ data' = data
    /\ file' = file

\* C12 as claimed: whatever the method, 200 with the info page that lists
\* the keys of the document; no handler runs and the document is as it was.
C12_Original ==
    [][ RootStep => /\ Returns(resp', 200, "info", DOMAIN data)
                    /\ NoDispatch ]_vars

\* C12 as amended: whatever the method other than OPTIONS, and whatever the
\* body, 200 with the info page that lists the keys of the document;
\* OPTIONS / is answered 200 with no body; in both cases no handler runs and
\* the document is as it was.
C12_RootInfoPage ==
    [][ RootStep => /\ IF req'.method = "OPTIONS"
                       THEN Returns(resp', 200, "none", <<>>)
                       ELSE Returns(resp', 200, "info", DOMAIN data)
                    /\ NoDispatch ]_vars

\* POST / with an unparsable body, after a request that changed the document
\* loaded from the hand-written file: the info page lists users alone.
C12_Witness ==
    /\ nreq = 2
    /\ mutated
    /\ req.method = "POST"
    /\ req.url = RootUrl
    /\ req.body = NotJSON
    /\ resp.status = 200
    /\ resp.body = [k |-> "info", v |-> {"users"}]
    /\ DOMAIN data = {"users"}

(***************************************************************************)
(* C13.  POST /C with a JSON object body that has an id field, C a         *)
(* collection of the document: the record stored last in C and returned    *)
(* has the id of the body, not the time read; when C already had a record  *)
(* with that id, it now has two.                                           *)
(***************************************************************************)
\* The positions in items of the records whose id is id.
WithId(items, id) == {i \in 1..Len(items) : IdOf(items[i]) = id}

\* C13: the step of such a POST.
C13_CallerIdWins ==
    [][ (RequestStep /\ OnCollection(req', "POST", data) /\ ObjectBody(req')
              /\ "id" \in DOMAIN FieldsOf(req'))
          => LET c == CollectionOf(req'.url)
                 id == FieldsOf(req').id
                 item == Last(data'[c])
             IN  /\ data'[c] = Append(data[c], item)
                 /\ item.id = id
                 /\ item.id # Num(clock')
                 /\ Returns(resp', 201, "object", JSONstringifyObject(item))
                 /\ resp'.body.v.id = req'.body.obj.id
                 /\ WithId(data[c], id) # {}
                      => Cardinality(WithId(data'[c], id)) >= 2 ]_vars

\* Two POSTs of {"id":1,"score":1e999} to /users: the last two users both
\* have id 1.
C13_Witness ==
    /\ nreq = 2
    /\ req.method = "POST"
    /\ req.body = IdBody
    /\ resp.status = 201
    /\ resp.body.v.id = LitNum(1)
    /\ LET n == Len(data.users)
       IN  /\ n >= 2
           /\ data.users[n].id = Num(1)
           /\ data.users[n - 1].id = Num(1)
           /\ "score" \in DOMAIN data.users[n - 1]
           /\ "score" \in DOMAIN data.users[n]

(***************************************************************************)
(* C14.  The keys of the document.                                         *)
(***************************************************************************)
\* The step leaves the key set of the document as it was.
KeySetFixed == DOMAIN data' = DOMAIN data

\* The step handles a POST, with a body that parses, to a name that is not
\* a key of the document.
PostToUnknown ==
    /\ RequestStep
    /\ req'.method = "POST"
    /\ req'.url # RootUrl
    /\ ValidBody(req')
    /\ CollectionOf(req'.url) \notin DOMAIN data

\* C14 as claimed: no step, a restart included, changes the key set of the
\* document, and a POST to a name that is not a key is answered 404.
C14_Original ==
    [][ /\ KeySetFixed
        /\ PostToUnknown => ReturnsError(resp', 404, "Collection not found") ]_vars

\* The first half of C14 alone.
C14KeySet == [][KeySetFixed]_vars

(***************************************************************************)
(* C15.  PATCH, the method of the model that is none of GET, POST, PUT,    *)
(* DELETE and OPTIONS, with no body or a JSON body: the response is the    *)
(* one GET gets for the same path on the same document, and the document   *)
(* and the file are as they were.                                          *)
(***************************************************************************)
\* The response to GET url on document d.
GetResponse(url, d, f) ==
    IF url = RootUrl THEN sendJSON(200, InfoPage(d))
    ELSE Caught(getHandler(d, f, url)).resp

UpdateOrDeleteStep ==
    /\ RequestStep
    /\ ValidBody(req')
    /\ OnCollection(req', "PUT", data) \/ OnCollection(req', "DELETE", data)

\* The path has a second segment and it is a decimal numeral.
NumericId(url) == Len(url) >= 2 /\ url[2].digits # <<>> /\ url[2].rest = ""

\* 404 Item not found, the document and the file as they were.
NothingMatched ==
    /\ ReturnsError(resp', 404, "Item not found")
    /\ data' = data
    /\ file' = file

\* Every record of the collection whose id is not a number is still in it.
NonNumberIdsKept ==
    LET c == CollectionOf(req'.url)
    IN  \A i \in 1..Len(data[c]) :
            IdOf(data[c][i]).t # "number"
                => \E j \in 1..Len(data'[c]) : data'[c][j] = data[c][i]

\* The part of C17 on ids that parse to NaN and on stored ids that are not
\* numbers.
C17NaN ==
    [][ UpdateOrDeleteStep
          => /\ parseInt(req'.url) = NaN => NothingMatched
             /\ NonNumberIdsKept ]_vars

\* C17 as claimed: a second segment that is missing or does not parse gives
\* NaN and 404 Item not found with nothing changed; a second segment that
\* is not numeric matches nothing; a record whose id is not a number is
\* matched by no path.
C17_Original ==
    [][ UpdateOrDeleteStep
          => /\ parseInt(req'.url) = NaN => NothingMatched
             /\ ~NumericId(req'.url) => NothingMatched
             /\ NonNumberIdsKept ]_vars

(***************************************************************************)
(* C18.  The file after a write of it has failed.                          *)
(***************************************************************************)
\* The file holds the document as JSON.stringify writes it.
InSync == file = FileWith(JSONstringifyDocument(data))

\* C18 as claimed: once a write has failed and the file differs from the
\* document, no request makes the file hold the document again.
C18_Original ==
    [][ (RequestStep /\ writeFailed /\ ~InSync) => ~InSync' ]_vars

\* C18 as amended: once a write has failed, the file is changed by nothing
\* but a later create, update or delete (201, 200, 204) whose own write
\* succeeds: no request retries the failed write, and a request that writes
\* nothing or whose write fails too leaves the file as it was; a write that
\* succeeds puts the whole document into the file, which ends the
\* divergence.
C18_NoRetry ==
    [][ (RequestStep /\ writeFailed)
          => /\ file' # file
                  => /\ req'.method \in {"POST", "PUT", "DELETE"}
                     /\ resp'.status = SuccessStatus(req'.method)
                     /\ WriteSucceeded(events')
             /\ ~WriteSucceeded(events') => file' = file
             /\ WriteSucceeded(events') => InSync' ]_vars

\* A create, update or delete whose write failed, then one whose write
\* succeeded: the file holds the document, both changes in it.
C18_Witness ==
    /\ nreq = 2
    /\ writeFailed
    /\ WriteSucceeded(events)
    /\ InSync
    /\ data # loadData(FileAbsent)
    /\ resp.status \in {200, 201, 204}

(***************************************************************************)
(* C19.  GET, OPTIONS, PATCH (which falls back to GET), every request to   *)
(* /, and every request answered 400 or 404: the document and the file are *)
(* as they were and no write is attempted.  The file is written only by a  *)
(* POST, PUT or DELETE answered 201, 200 or 204.                           *)
(***************************************************************************)
\* The request of the step only reads, or is rejected.
ReadOnlyOrRejected ==
    \/ req'.method \in {"GET", "OPTIONS", "PATCH"}
    \/ req'.url = RootUrl
    \/ resp'.status \in {400, 404}

\* C19: every step that handles a request.
C19_NoEffect ==
    [][ RequestStep
          => /\ ReadOnlyOrRejected
                  => /\ data' = data
                     /\ file' = file
                     /\ ~HasEvent(events', "mutate")
                     /\ ~HasEvent(events', "write")
             /\ (HasEvent(events', "write") \/ file' # file)
                  => /\ req'.method \in {"POST", "PUT", "DELETE"}
                     /\ req'.url # RootUrl
                     /\ resp'.status = SuccessStatus(req'.method)
                     /\ HasEvent(events', "write") ]_vars

\* DELETE /users/x answered 404 after a request that changed the document
\* and wrote the file: the file still holds the document.
C19_Witness ==
    /\ nreq = 2
    /\ mutated
    /\ ~writeFailed
    /\ req.method = "DELETE"
    /\ req.url = << Seg(<<>>, "users"), Seg(<<>>, "x") >>
    /\ resp.status = 404
    /\ events = << Event("respond") >>
    /\ InSync
    /\ data # loadData(FileAbsent)

(***************************************************************************)
(* Requests one after another.                                             *)
(***************************************************************************)
\* handleRequest and its 'end' listener for a request r whose body has
\* arrived whole, with no other request in between.
serve(d, f, r, t, outcome) ==
    IF answeredAtOnce(r) THEN atOnce(d, f, r)
    ELSE endCallback(d, f, r, r.body, t, outcome)

\* Each request step of Spec is serve applied to the document, the file and
\* the request.
ServeIsRequestStep ==
    [][ RequestStep
          => \E outcome \in WriteOutcomes :
                LET out == serve(data, file, req', clock', outcome)
                IN  /\ data' = out.data
                    /\ file' = out.file
                    /\ resp' = out.resp
                    /\ events' = out.events ]_vars

\* The document, the file and the responses after the first n entries of
\* served, the requests handled one after another from the start.
RECURSIVE Replay(_)
Replay(n) ==
    IF n = 0 THEN [data |-> loadData(boot), file |-> boot, resps |-> <<>>]
    ELSE LET before == Replay(n - 1)
             e == served[n]
             out == serve(before.data, before.file, conns[e.c].request, e.t,
                          IF e.saved THEN "ok" ELSE "refused")
         IN  [data |-> out.data, file |-> out.file,
              resps |-> Append(before.resps, out.resp)]

(***************************************************************************)
(* C16.  Requests in flight together, their chunks interleaved: what a     *)
(* request has accumulated and still expects are the chunks of its own     *)
(* body; the document, the file and every response are those of the        *)
(* answered requests handled one after another in the order served.        *)
(***************************************************************************)
\* C16: in every state of the server with requests in flight.
C16_Serialised ==
    /\ \A c \in Connections :
          conns[c].phase # "idle"
              => conns[c].body \o conns[c].pending = chunksOf(conns[c].request.body)
    /\ LET final == Replay(Len(served))
       IN  /\ data = final.data
           /\ file = final.file
           /\ \A n \in 1..Len(served) :
                  conns[served[n].c].responses = << final.resps[n] >>

\* A POST and a PUT with two chunks each, the PUT sent second and ended
\* first: 200, then 201, and both changes are in the document.
C16_Witness ==
    /\ Len(served) = 2
    /\ served[1].c = 2
    /\ served[2].c = 1
    /\ conns[1].request.method = "POST"
    /\ conns[1].request.body = NameBody
    /\ conns[2].request.method = "PUT"
    /\ Len(conns[1].body) = 2
    /\ Len(conns[2].body) = 2
    /\ conns[1].responses[1].status = 201
    /\ conns[2].responses[1].status = 200
    /\ data.users[1].name = Str("X")
    /\ Last(data.users).name = Str("X")

(***************************************************************************)
(* C20.  A request has at most one response; it has one exactly when it is *)
(* OPTIONS or to /, or its 'end' listener has run; the response sent by    *)
(* the 'end' listener has status 200, 201, 204, 400 or 404; the document   *)
(* and the file change in no step but the 'end' listener of a request.     *)
(***************************************************************************)
AnsweredOnce ==
    \A c \in Connections :
        LET k == conns[c]
        IN  /\ Len(k.responses) <= 1
            /\ Len(k.responses) = 1
                 <=> /\ k.phase # "idle"
                     /\ k.request.method = "OPTIONS" \/ k.request.url = RootUrl \/ k.ended
            /\ k.ended => k.responses[1].status \in {200, 201, 204, 400, 404}
            /\ (k.phase = "reading" /\ k.pending # <<>>) => k.responses = <<>>

\* The 'end' listener of connection c runs in the step.
EndStep(c) == ~conns[c].ended /\ conns'[c].ended

StoreTouchedAtEnd ==
    /\ (data' # data \/ file' # file)
          => \E c \in Connections : EndStep(c) /\ conns[c].pending = <<>>
    /\ \A c \in Connections :
          /\ conns[c].responses # <<>> => conns'[c].responses = conns[c].responses
          /\ ~EndStep(c) /\ conns[c].phase # "idle"
                => conns'[c].responses = conns[c].responses

\* C20: in every state and every step of the server with requests in flight.
C20_OneResponse == []AnsweredOnce /\ [][StoreTouchedAtEnd]_vars

\* A POST whose second chunk has not come, unanswered, while a PUT sent
\* after it has been read to its end and answered 200.
C20_Witness ==
    /\ conns[1].phase = "reading"
    /\ conns[1].request.method = "POST"
    /\ Len(conns[1].body) = 1
    /\ Len(conns[1].pending) = 1
    /\ conns[1].responses = <<>>
    /\ conns[2].ended
    /\ conns[2].request.method = "PUT"
    /\ Len(conns[2].responses) = 1
    /\ conns[2].responses[1].status = 200
    /\ data.users[1].name = Str("X")
    /\ Len(data.users) = Len(loadData(boot).users)

====
